---- MODULE Spec2Model ----
(***************************************************************************)
(* A model of the fruit-storage repository: the SQLite schema and the      *)
(* import-time seeding of database.py, and the create / read / update /    *)
(* delete functions of crud.py that act on it; and the Fruit record of     *)
(* models.py with its expiry properties.                                   *)
(*                                                                         *)
(* Representation.  A TEXT value is the sequence of its character codes    *)
(* ('Apple' is <<65, 112, 112, 108, 101>>), so that LIKE, BINARY collation *)
(* and the parsing of ISO dates are computed character by character.  A    *)
(* REAL price is held in hundredths (0.50 is 50).  SQL NULL / Python None  *)
(* is the value NULL, different from every text.                           *)
(***************************************************************************)
EXTENDS Integers, Sequences, FiniteSets, TLC

\* Bound on the number of committed writes of one behaviour.
MaxWrites == 1

\* SQL NULL and Python None: no text holds a negative character code.
NULL == <<-1>>

(***************************************************************************)
(* Texts of the sample data and of the inputs.                             *)
(***************************************************************************)
\* 'Apple'
Apple == <<65, 112, 112, 108, 101>>
\* 'Banana'
Banana == <<66, 97, 110, 97, 110, 97>>
\* 'Orange'
Orange == <<79, 114, 97, 110, 103, 101>>
\* 'Strawberry'
Strawberry == <<83, 116, 114, 97, 119, 98, 101, 114, 114, 121>>
\* 'Mango'
Mango == <<77, 97, 110, 103, 111>>
\* 'Kiwi'
Kiwi == <<75, 105, 119, 105>>
\* 'Cold Storage A'
ColdStorageA == <<67, 111, 108, 100, 32, 83, 116, 111, 114, 97, 103, 101, 32, 65>>
\* 'Room Temperature Storage'
RoomTemperatureStorage ==
    <<82, 111, 111, 109, 32, 84, 101, 109, 112, 101, 114, 97, 116, 117, 114, 101,
      32, 83, 116, 111, 114, 97, 103, 101>>
\* 'Cold Storage B'
ColdStorageB == <<67, 111, 108, 100, 32, 83, 116, 111, 114, 97, 103, 101, 32, 66>>
\* 'Freezer'
Freezer == <<70, 114, 101, 101, 122, 101, 114>>
\* 'Citrus'
Citrus == <<67, 105, 116, 114, 117, 115>>
\* 'Tropical'
Tropical == <<84, 114, 111, 112, 105, 99, 97, 108>>
\* 'Berries'
Berries == <<66, 101, 114, 114, 105, 101, 115>>
\* 'Core Fruits'
CoreFruits == <<67, 111, 114, 101, 32, 70, 114, 117, 105, 116, 115>>
\* 'Dried'
Dried == <<68, 114, 105, 101, 100>>
\* the empty text ''
Empty == <<>>

(***************************************************************************)
(* Text operations of the store.                                           *)
(***************************************************************************)
\* BINARY collation (memcmp): a <= b, decided at the first position i
\* where the two texts differ or one of them ends.
RECURSIVE TextLeqFrom(_, _, _)
TextLeqFrom(a, b, i) ==
    IF i > Len(a) THEN TRUE
    ELSE IF i > Len(b) THEN FALSE
    ELSE IF a[i] # b[i] THEN a[i] < b[i]
    ELSE TextLeqFrom(a, b, i + 1)

TextLeq(a, b) == TextLeqFrom(a, b, 1)

\* The ASCII case folding of LIKE: 'A'..'Z' fold to 'a'..'z', nothing else.
Lower(c) == IF c >= 65 /\ c <= 90 THEN c + 32 ELSE c

\* text LIKE pattern, from position i of the text and j of the pattern:
\* '%' (37) matches any run of characters, '_' (95) any one character,
\* every other character itself up to ASCII case.
RECURSIVE LikeFrom(_, _, _, _)
LikeFrom(s, i, p, j) ==
    IF j > Len(p) THEN i > Len(s)
    ELSE IF p[j] = 37 THEN LikeFrom(s, i, p, j + 1) \/ (i <= Len(s) /\ LikeFrom(s, i + 1, p, j))
    ELSE IF i > Len(s) THEN FALSE
    ELSE IF p[j] = 95 THEN LikeFrom(s, i + 1, p, j + 1)
    ELSE Lower(p[j]) = Lower(s[i]) /\ LikeFrom(s, i + 1, p, j + 1)

Like(s, p) == LikeFrom(s, 1, p, 1)

(***************************************************************************)
(* Calendar dates.  A date text is 'YYYY-MM-DD'; date() parses it to a     *)
(* Julian day number, applies the modifier, and formats the day back.      *)
(***************************************************************************)
IsDigit(c) == c >= 48 /\ c <= 57

\* The decimal digits of n, zero padded to width w.
RECURSIVE Digits(_, _)
Digits(n, w) == IF w = 0 THEN <<>> ELSE Append(Digits(n \div 10, w - 1), 48 + (n % 10))

\* date.isoformat(): 'YYYY-MM-DD'.
IsoFormat(y, m, d) == Digits(y, 4) \o <<45>> \o Digits(m, 2) \o <<45>> \o Digits(d, 2)

\* The number written by the digits of t.
RECURSIVE Number(_)
Number(t) == IF t = <<>> THEN 0 ELSE 10 * Number(SubSeq(t, 1, Len(t) - 1)) + (t[Len(t)] - 48)

\* Julian day number of the civil date y-m-d, as the store computes it.
JulianDay(y, m, d) ==
    LET Y == IF m <= 2 THEN y - 1 ELSE y
        M == IF m <= 2 THEN m + 12 ELSE m
        A == Y \div 100
        B == 2 - A + (A \div 4)
        X1 == (36525 * (Y + 4716)) \div 100
        X2 == (306001 * (M + 1)) \div 10000
    IN  X1 + X2 + d + B - 1524

\* The 'YYYY-MM-DD' text of Julian day number z.
CivilDate(z) ==
    LET A0 == (4 * z - 7468865) \div 146097
        A == z + 1 + A0 - (A0 \div 4)
        B == A + 1524
        C == (20 * B - 2442) \div 7305
        D == (36525 * C) \div 100
        E == (10000 * (B - D)) \div 306001
        X1 == (306001 * E) \div 10000
        day == B - D - X1
        month == IF E < 14 THEN E - 1 ELSE E - 13
        year == IF month > 2 THEN C - 4716 ELSE C - 4715
    IN  IsoFormat(year, month, day)

\* The Julian day number a text denotes, or NULL when the text is no
\* 'YYYY-MM-DD' date (month 1..12, day 1..31).
ParseDay(t) ==
    IF t = NULL \/ Len(t) # 10 THEN NULL
    ELSE IF ~(/\ \A i \in {1, 2, 3, 4, 6, 7, 9, 10} : IsDigit(t[i])
              /\ t[5] = 45 /\ t[8] = 45) THEN NULL
    ELSE LET y == Number(SubSeq(t, 1, 4))
             m == Number(SubSeq(t, 6, 7))
             d == Number(SubSeq(t, 9, 10))
         IN  IF m < 1 \/ m > 12 \/ d < 1 \/ d > 31 THEN NULL
             ELSE <<JulianDay(y, m, d)>>

\* SQL date(t): the normalised date text, NULL for a text that is no date.
Date(t) == LET z == ParseDay(t) IN IF z = NULL THEN NULL ELSE CivilDate(z[1])

\* SQL date(t, '+' || n || ' days').  A negative n gives the modifier
\* '+-n days', which is no modifier: the result is NULL.
DatePlusDays(t, n) ==
    LET z == ParseDay(t)
    IN  IF z = NULL \/ n < 0 THEN NULL ELSE CivilDate(z[1] + n)

(***************************************************************************)
(* The store and the process.                                              *)
(***************************************************************************)
VARIABLES
    schema,            \* the relations of data/fruits.db, in order of creation
    fruits,            \* relation fruits: id -> row
    fruitSeq,          \* AUTOINCREMENT: the largest fruit id ever assigned
    categories,        \* relation categories: id -> row
    catSeq,            \* AUTOINCREMENT: the largest category id ever assigned
    fruit_categories,  \* relation fruit_categories: set of <<fruit_id, category_id>>
    process,           \* "none", "running" (database imported) or "crashed"
    conn,              \* the application's connection: [open, foreign_keys]
    writes,            \* number of committed writes so far
    call,              \* the last call and its arguments
    ret,               \* what the last call returned
    raised,            \* the store error raised during the last call, "" if none
    fruit              \* a Fruit object of models.py, outside the store

vars == <<schema, fruits, fruitSeq, categories, catSeq, fruit_categories,
          process, conn, writes, call, ret, raised, fruit>>

\* Minimum quantity and price (in hundredths) of the entry form.
MinQuantity == 1
MinPrice == 1
\* Default window, in days, of get_expiring_fruits.
DefaultDays == 7

\* The store errors the calls can meet.
NotNullFailed == "NOT NULL constraint failed"
UniqueFailed == "UNIQUE constraint failed: categories.name"
PrimaryKeyFailed == "UNIQUE constraint failed: fruit_categories.fruit_id, fruit_categories.category_id"
ForeignKeyFailed == "FOREIGN KEY constraint failed"
StorageFault == "disk I/O error"
TableExists == "table already exists"

\* A call record: the function called, its arguments (unused ones at their
\* defaults) and, for get_expiring_fruits, the date its clock showed.
Call(op) ==
    [op |-> op, fruit_id |-> 0, category_id |-> 0, name |-> NULL, quantity |-> 0,
     price |-> 0, storage_location |-> NULL, expiry_date |-> NULL,
     search_term |-> NULL, days |-> 0, now |-> NULL]

CallWithRow(op, fruit_id, in) ==
    [Call(op) EXCEPT !.fruit_id = fruit_id, !.name = in.name, !.quantity = in.quantity,
                     !.price = in.price, !.storage_location = in.storage_location,
                     !.expiry_date = in.expiry_date]

\* Return values: a bool, a list of rows (fetchall), one row or None
\* (fetchone), nothing, or no return at all (an exception left the call).
RetBool(b) == [type |-> "bool", bool |-> b, rows |-> <<>>]
RetList(rows) == [type |-> "list", bool |-> FALSE, rows |-> rows]
RetOne(rows) ==
    [type |-> IF rows = <<>> THEN "None" ELSE "tuple", bool |-> FALSE,
     rows |-> IF rows = <<>> THEN <<>> ELSE <<rows[1]>>]
RetNone == [type |-> "None", bool |-> FALSE, rows |-> <<>>]
RetRaise == [type |-> "raise", bool |-> FALSE, rows |-> <<>>]

(***************************************************************************)
(* database.py: schema and sample data.                                    *)
(***************************************************************************)
\* The outcome of a schema statement: the relations after it and the error
\* it raised, "" if none.
Outcome(sch, error) == [schema |-> sch, error |-> error]

HasTable(sch, name) == \E i \in DOMAIN sch : sch[i] = name

\* CREATE TABLE name: an error when a relation of that name exists.
CreateTable(sch, name) ==
    IF HasTable(sch, name) THEN Outcome(sch, TableExists)
    ELSE Outcome(Append(sch, name), "")
\* CREATE TABLE IF NOT EXISTS name: a relation that exists is kept as it is.
CreateTableIfNotExists(sch, name) ==
    IF HasTable(sch, name) THEN Outcome(sch, "")
    ELSE Outcome(Append(sch, name), "")

\* The three statements of create_tables in turn; an error ends the call,
\* and what the statements before it created stays (a schema statement is
\* not part of a transaction).
create_tables(sch) ==
    LET first == CreateTableIfNotExists(sch, "fruits")
        second == CreateTableIfNotExists(first.schema, "categories")
        third == CreateTableIfNotExists(second.schema, "fruit_categories")
    IN  IF first.error # "" THEN first
        ELSE IF second.error # "" THEN second
        ELSE third

\* PRAGMA foreign_keys = ON, executed on every connection handed out.
ForeignKeysOff == FALSE
ForeignKeysPragma == TRUE

\* DEFAULT CURRENT_DATE: the store's date (UTC) when a row is inserted.  No
\* call reads added_date back except to return it, and the behaviours
\* modelled lie within one day of the store's clock.
CURRENT_DATE == IsoFormat(2023, 11, 10)

\* The row an INSERT INTO fruits stores: the five bound values, the id the
\* store assigns, added_date defaulted to CURRENT_DATE.
FruitRow(id, in, date) ==
    [id |-> id, name |-> in.name, quantity |-> in.quantity, price |-> in.price,
     storage_location |-> in.storage_location, expiry_date |-> in.expiry_date,
     added_date |-> date]

In(name, quantity, price, storage_location, expiry_date) ==
    [name |-> name, quantity |-> quantity, price |-> price,
     storage_location |-> storage_location, expiry_date |-> expiry_date]

sample_fruits ==
    << In(Apple, 100, 50, ColdStorageA, IsoFormat(2023, 12, 31)),
       In(Banana, 150, 30, RoomTemperatureStorage, IsoFormat(2023, 11, 15)),
       In(Orange, 80, 60, ColdStorageB, IsoFormat(2023, 12, 20)),
       In(Strawberry, 50, 120, Freezer, IsoFormat(2023, 11, 10)),
       In(Mango, 30, 150, RoomTemperatureStorage, IsoFormat(2023, 11, 25)) >>

sample_categories == << Citrus, Tropical, Berries, CoreFruits >>

\* The sample relationships, by name: (fruit, category).
sample_relationships ==
    { <<Apple, CoreFruits>>, <<Orange, Citrus>>, <<Banana, Tropical>>,
      <<Strawberry, Berries>>, <<Mango, Tropical>> }

\* NOT NULL on name, quantity, price, storage_location of fruits.
NotNullViolation(in) ==
    \/ in.name = NULL
    \/ in.storage_location = NULL

\* UNIQUE on categories.name (BINARY collation): another row has the name.
UniqueAccepts(cats, id, name) == FALSE
UniqueViolation(cats, id, name) ==
    \E c \in DOMAIN cats : c # id /\ cats[c].name = name

\* The foreign keys of fruit_categories, enforced when the connection has
\* foreign_keys on: the parent rows must exist.
ForeignKeyFruitOnly(fs, cats, fruit_id, category_id) == fruit_id \notin DOMAIN fs
ForeignKeyViolation(fs, cats, fruit_id, category_id) ==
    fruit_id \notin DOMAIN fs \/ category_id \notin DOMAIN cats

\* ON DELETE CASCADE: the links left after the parent rows fs and cats
\* remain, on a connection with foreign_keys on; all links otherwise.
Cascade(links, fs, cats, fk) ==
    IF fk THEN {l \in links : l[1] \in DOMAIN fs /\ l[2] \in DOMAIN cats}
    ELSE links

\* f extended by the row r under key k.
Insert(f, k, r) == [x \in DOMAIN f \cup {k} |-> IF x = k THEN r ELSE f[x]]
\* f without key k.
Delete(f, k) == [x \in DOMAIN f \ {k} |-> f[x]]

\* The fruits table after executemany of the sample fruits, ids assigned
\* from seq + 1 on.
SeedFruits(fs, seq, date) ==
    [x \in DOMAIN fs \cup (seq + 1 .. seq + Len(sample_fruits)) |->
        IF x \in DOMAIN fs THEN fs[x] ELSE FruitRow(x, sample_fruits[x - seq], date)]

SeedCategories(cats, seq) ==
    [x \in DOMAIN cats \cup (seq + 1 .. seq + Len(sample_categories)) |->
        IF x \in DOMAIN cats THEN cats[x]
        ELSE [id |-> x, name |-> sample_categories[x - seq]]]

\* SELECT id FROM fruits WHERE name = ... and SELECT id FROM categories
\* WHERE name = ..., joined into the sample links.
SeedLinks(fs, cats) ==
    { <<f, c>> \in (DOMAIN fs) \X (DOMAIN cats) :
        <<fs[f].name, cats[c].name>> \in sample_relationships }

Closed == [open |-> FALSE, foreign_keys |-> FALSE]

\* Fruit(): the dataclass with its defaults (None as 0 for id, NULL for the
\* dates).
Fruit ==
    [id |-> 0, name |-> Empty, quantity |-> 0, price |-> 0,
     storage_location |-> Empty, expiry_date |-> NULL, added_date |-> NULL]

Init ==
    /\ schema = <<>>
    /\ fruits = <<>>
    /\ fruitSeq = 0
    /\ categories = <<>>
    /\ catSeq = 0
    /\ fruit_categories = {}
    /\ process = "none"
    /\ conn = Closed
    /\ writes = 0
    /\ call = Call("")
    /\ ret = RetNone
    /\ raised = ""
    /\ fruit = Fruit

\* import database: the module body runs initialize_sample_data(), which
\* opens its own connection, seeds the store when fruits is empty, and
\* closes the connection.  An IntegrityError is not caught: the import
\* fails, and what was inserted and not committed is rolled back.
initialize_sample_data ==
    /\ call' = Call("initialize_sample_data")
    /\ schema' = create_tables(schema).schema
    /\ conn' = Closed
    /\ UNCHANGED <<writes, fruit>>
    /\ IF create_tables(schema).error # ""
       THEN /\ process' = "crashed" /\ ret' = RetRaise
            /\ raised' = create_tables(schema).error
            /\ UNCHANGED <<fruits, fruitSeq, categories, catSeq, fruit_categories>>
       ELSE IF DOMAIN fruits # {}
       THEN /\ process' = "running" /\ ret' = RetNone /\ raised' = ""
            /\ UNCHANGED <<fruits, fruitSeq, categories, catSeq, fruit_categories>>
       ELSE IF \E i \in 1..Len(sample_categories) :
                  UniqueViolation(categories, 0, sample_categories[i])
       THEN /\ process' = "crashed" /\ ret' = RetRaise /\ raised' = UniqueFailed
            /\ UNCHANGED <<fruits, fruitSeq, categories, catSeq, fruit_categories>>
       ELSE /\ process' = "running" /\ ret' = RetNone /\ raised' = ""
            /\ fruits' = SeedFruits(fruits, fruitSeq, CURRENT_DATE)
            /\ fruitSeq' = fruitSeq + Len(sample_fruits)
            /\ categories' = SeedCategories(categories, catSeq)
            /\ catSeq' = catSeq + Len(sample_categories)
            /\ fruit_categories' =
                   fruit_categories \cup SeedLinks(fruits', categories')

\* get_db_connection(): connect, PRAGMA foreign_keys = ON, create_tables.
\* An error of create_tables leaves the call, and the caller has no
\* connection.
get_db_connection ==
    /\ process = "running"
    /\ call' = Call("get_db_connection")
    /\ schema' = create_tables(schema).schema
    /\ raised' = create_tables(schema).error
    /\ IF create_tables(schema).error # ""
       THEN conn' = Closed /\ ret' = RetRaise
       ELSE conn' = [open |-> TRUE, foreign_keys |-> ForeignKeysPragma] /\ ret' = RetNone
    /\ UNCHANGED <<fruits, fruitSeq, categories, catSeq, fruit_categories,
                   process, writes, fruit>>

(***************************************************************************)
(* crud.py: the queries, as functions of the relations.                    *)
(***************************************************************************)
\* ORDER BY col over a scan of the table: ascending in col under BINARY
\* collation (NULL first), rows of equal col in rowid order.
BeforeNewestFirst(r, q, col) ==
    IF r[col] = q[col] THEN r.id >= q.id ELSE TextLeq(r[col], q[col])
Before(r, q, col) ==
    IF r[col] = q[col] THEN r.id <= q.id ELSE TextLeq(r[col], q[col])

RECURSIVE OrderBy(_, _)
OrderBy(S, col) ==
    IF S = {} THEN <<>>
    ELSE LET first == CHOOSE r \in S : \A q \in S : Before(r, q, col)
         IN  <<first>> \o OrderBy(S \ {first}, col)

Rows(f) == {f[k] : k \in DOMAIN f}

\* SELECT ... FROM fruits ORDER BY name
AllFruits(fs) == OrderBy(Rows(fs), "name")

\* SELECT ... FROM fruits WHERE id = ?, fetchone(): <<row>> or <<>> (None)
FruitById(fs, fruit_id) ==
    IF fruit_id \in DOMAIN fs THEN <<fs[fruit_id]>> ELSE <<>>

\* SELECT f.* FROM fruits f JOIN fruit_categories fc ON f.id = fc.fruit_id
\* WHERE fc.category_id = ? ORDER BY f.name
FruitsByCategory(fs, links, category_id) ==
    OrderBy({r \in Rows(fs) : <<r.id, category_id>> \in links}, "name")

\* SELECT id, name FROM categories ORDER BY name
AllCategories(cats) == OrderBy(Rows(cats), "name")

\* A comparison of two date() results: false when either is NULL.
DateLeq(a, b) == a # NULL /\ b # NULL /\ TextLeq(a, b)

\* WHERE expiry_date IS NOT NULL
\*   AND date(expiry_date) <= date(?, '+' || ? || ' days')
\*   AND date(expiry_date) >= date(?)
\* with lo = date(today) and hi = date(today, '+days days').
ExpiringOpenEnd(r, lo, hi) ==
    LET expiry == Date(r.expiry_date)
    IN  r.expiry_date # NULL /\ DateLeq(expiry, hi) /\ expiry # hi /\ DateLeq(lo, expiry)
Expiring(r, lo, hi) ==
    LET expiry == Date(r.expiry_date)
    IN  r.expiry_date # NULL /\ DateLeq(expiry, hi) /\ DateLeq(lo, expiry)

\* get_expiring_fruits: the rows above, ORDER BY expiry_date
ExpiringFruits(fs, now, days) ==
    LET lo == Date(now)
        hi == DatePlusDays(now, days)
    IN  OrderBy({r \in Rows(fs) : Expiring(r, lo, hi)}, "expiry_date")

\* search_pattern = f"%{search_term}%"
SearchPattern(search_term) == <<37>> \o search_term \o <<37>>

\* WHERE name LIKE ? OR storage_location LIKE ?
Matches(r, pattern) == Like(r.name, pattern) \/ Like(r.storage_location, pattern)

\* search_fruits: the rows above, ORDER BY name
SearchFruits(fs, search_term) ==
    LET pattern == SearchPattern(search_term)
    IN  OrderBy({r \in Rows(fs) : Matches(r, pattern)}, "name")

(***************************************************************************)
(* crud.py: the calls.  Every call needs an open connection.  A write      *)
(* runs one statement and commits; `fault` is the store failing the        *)
(* statement (sqlite3.Error other than a constraint), which the call       *)
(* catches, prints and answers with False.                                 *)
(***************************************************************************)
\* What a write returns from its except branch (return False), with no row
\* affected (return cursor.rowcount > 0) and after a commit that changed
\* the store.
CaughtReturn == RetBool(FALSE)
NoRowReturn == RetBool(FALSE)
CommittedReturn == RetBool(TRUE)

\* The value the store binds for a Python bool passed as a parameter.
BoundAsInteger(r) == IF r.bool THEN 1 ELSE 0

\* The except branch: nothing is committed, the call returns False.
Caught(err) ==
    /\ ret' = CaughtReturn
    /\ raised' = err
    /\ UNCHANGED <<fruits, fruitSeq, categories, catSeq, fruit_categories, writes>>

\* conn.commit(); return cursor.rowcount > 0 with no row affected.
NoRow ==
    /\ ret' = NoRowReturn
    /\ raised' = ""
    /\ UNCHANGED <<fruits, fruitSeq, categories, catSeq, fruit_categories, writes>>

\* conn.commit(); return True.
Committed ==
    /\ ret' = CommittedReturn
    /\ raised' = ""
    /\ writes' = writes + 1

Write == conn.open /\ UNCHANGED <<schema, process, conn, fruit>>

Read ==
    /\ conn.open
    /\ raised' = ""
    /\ UNCHANGED <<schema, fruits, fruitSeq, categories, catSeq, fruit_categories,
                   process, conn, writes, fruit>>

\* The values UPDATE fruits SET name = ?, quantity = ?, price = ?,
\* storage_location = ?, expiry_date = ? leaves in the row.
UpdatedKeepExpiry(row, in) ==
    [row EXCEPT !.name = in.name, !.quantity = in.quantity, !.price = in.price,
                !.storage_location = in.storage_location]
Updated(row, in) ==
    [row EXCEPT !.name = in.name, !.quantity = in.quantity, !.price = in.price,
                !.storage_location = in.storage_location,
                !.expiry_date = in.expiry_date]

add_fruit(in, fault) ==
    /\ Write
    /\ call' = CallWithRow("add_fruit", 0, in)
    /\ IF fault THEN Caught(StorageFault)
       ELSE IF NotNullViolation(in) THEN Caught(NotNullFailed)
       ELSE /\ fruits' = Insert(fruits, fruitSeq + 1, FruitRow(fruitSeq + 1, in, CURRENT_DATE))
            /\ fruitSeq' = fruitSeq + 1
            /\ UNCHANGED <<categories, catSeq, fruit_categories>>
            /\ Committed

add_category(name, fault) ==
    /\ Write
    /\ call' = [Call("add_category") EXCEPT !.name = name]
    /\ IF fault THEN Caught(StorageFault)
       ELSE IF name = NULL THEN Caught(NotNullFailed)
       ELSE IF UniqueViolation(categories, 0, name) THEN Caught(UniqueFailed)
       ELSE /\ categories' = Insert(categories, catSeq + 1, [id |-> catSeq + 1, name |-> name])
            /\ catSeq' = catSeq + 1
            /\ UNCHANGED <<fruits, fruitSeq, fruit_categories>>
            /\ Committed

assign_fruit_to_category(fruit_id, category_id, fault) ==
    /\ Write
    /\ call' = [Call("assign_fruit_to_category") EXCEPT !.fruit_id = fruit_id,
                                                        !.category_id = category_id]
    /\ IF fault THEN Caught(StorageFault)
       ELSE IF <<fruit_id, category_id>> \in fruit_categories THEN Caught(PrimaryKeyFailed)
       ELSE IF conn.foreign_keys
               /\ ForeignKeyViolation(fruits, categories, fruit_id, category_id)
       THEN Caught(ForeignKeyFailed)
       ELSE /\ fruit_categories' = fruit_categories \cup {<<fruit_id, category_id>>}
            /\ UNCHANGED <<fruits, fruitSeq, categories, catSeq>>
            /\ Committed

update_fruit(fruit_id, in, fault) ==
    /\ Write
    /\ call' = CallWithRow("update_fruit", fruit_id, in)
    /\ IF fault THEN Caught(StorageFault)
       ELSE IF fruit_id \notin DOMAIN fruits THEN NoRow
       ELSE IF NotNullViolation(in) THEN Caught(NotNullFailed)
       ELSE /\ fruits' = [fruits EXCEPT ![fruit_id] = Updated(fruits[fruit_id], in)]
            /\ UNCHANGED <<fruitSeq, categories, catSeq, fruit_categories>>
            /\ Committed

update_fruit_quantity(fruit_id, quantity, fault) ==
    /\ Write
    /\ call' = [Call("update_fruit_quantity") EXCEPT !.fruit_id = fruit_id,
                                                     !.quantity = quantity]
    /\ IF fault THEN Caught(StorageFault)
       ELSE IF fruit_id \notin DOMAIN fruits THEN NoRow
       ELSE /\ fruits' = [fruits EXCEPT ![fruit_id].quantity = quantity]
            /\ UNCHANGED <<fruitSeq, categories, catSeq, fruit_categories>>
            /\ Committed

update_category(category_id, name, fault) ==
    /\ Write
    /\ call' = [Call("update_category") EXCEPT !.category_id = category_id, !.name = name]
    /\ IF fault THEN Caught(StorageFault)
       ELSE IF category_id \notin DOMAIN categories THEN NoRow
       ELSE IF name = NULL THEN Caught(NotNullFailed)
       ELSE IF UniqueViolation(categories, category_id, name) THEN Caught(UniqueFailed)
       ELSE /\ categories' = [categories EXCEPT ![category_id].name = name]
            /\ UNCHANGED <<fruits, fruitSeq, catSeq, fruit_categories>>
            /\ Committed

delete_fruit(fruit_id, fault) ==
    /\ Write
    /\ call' = [Call("delete_fruit") EXCEPT !.fruit_id = fruit_id]
    /\ IF fault THEN Caught(StorageFault)
       ELSE IF fruit_id \notin DOMAIN fruits THEN NoRow
       ELSE /\ fruits' = Delete(fruits, fruit_id)
            /\ fruit_categories' =
                   Cascade(fruit_categories, fruits', categories, conn.foreign_keys)
            /\ UNCHANGED <<fruitSeq, categories, catSeq>>
            /\ Committed

delete_category(category_id, fault) ==
    /\ Write
    /\ call' = [Call("delete_category") EXCEPT !.category_id = category_id]
    /\ IF fault THEN Caught(StorageFault)
       ELSE IF category_id \notin DOMAIN categories THEN NoRow
       ELSE /\ categories' = Delete(categories, category_id)
            /\ fruit_categories' =
                   Cascade(fruit_categories, fruits, categories', conn.foreign_keys)
            /\ UNCHANGED <<fruits, fruitSeq, catSeq>>
            /\ Committed

remove_fruit_from_category(fruit_id, category_id, fault) ==
    /\ Write
    /\ call' = [Call("remove_fruit_from_category") EXCEPT !.fruit_id = fruit_id,
                                                          !.category_id = category_id]
    /\ IF fault THEN Caught(StorageFault)
       ELSE IF <<fruit_id, category_id>> \notin fruit_categories THEN NoRow
       ELSE /\ fruit_categories' = fruit_categories \ {<<fruit_id, category_id>>}
            /\ UNCHANGED <<fruits, fruitSeq, categories, catSeq>>
            /\ Committed

get_all_fruits ==
    /\ Read
    /\ call' = Call("get_all_fruits")
    /\ ret' = RetList(AllFruits(fruits))

get_fruit_by_id(fruit_id) ==
    /\ Read
    /\ call' = [Call("get_fruit_by_id") EXCEPT !.fruit_id = fruit_id]
    /\ ret' = RetOne(FruitById(fruits, fruit_id))

get_fruits_by_category(category_id) ==
    /\ Read
    /\ call' = [Call("get_fruits_by_category") EXCEPT !.category_id = category_id]
    /\ ret' = RetList(FruitsByCategory(fruits, fruit_categories, category_id))

get_all_categories ==
    /\ Read
    /\ call' = Call("get_all_categories")
    /\ ret' = RetList(AllCategories(categories))

get_expiring_fruits(days, now) ==
    /\ Read
    /\ call' = [Call("get_expiring_fruits") EXCEPT !.days = days, !.now = now]
    /\ ret' = RetList(ExpiringFruits(fruits, now, days))

search_fruits(search_term) ==
    /\ Read
    /\ call' = [Call("search_fruits") EXCEPT !.search_term = search_term]
    /\ ret' = RetList(SearchFruits(fruits, search_term))

(***************************************************************************)
(* The inputs of the calls and the specification.                          *)
(***************************************************************************)
\* 'cold'
TermCold == <<99, 111, 108, 100>>
\* 'AN'
TermAN == <<65, 78>>
\* 'z'
TermZ == <<122>>
\* '_'
TermUnderscore == <<95>>
\* '%'
TermPercent == <<37>>

\* Rows a caller supplies: two that meet the form's minimums (one at the
\* minimums, one without expiry date and with the name of a sample fruit),
\* and rows with an empty name, a quantity or a price below the minimum,
\* and negative numbers.
ValidRows ==
    { In(Kiwi, MinQuantity, MinPrice, Freezer, IsoFormat(2023, 12, 2)),
      In(Apple, 5, 50, ColdStorageA, NULL) }
InvalidRows ==
    { In(Empty, 5, 50, Freezer, NULL),
      In(Kiwi, 0, 50, Freezer, NULL),
      In(Kiwi, 5, 0, Freezer, NULL),
      In(Kiwi, -1, -1, Freezer, IsoFormat(2024, 1, 4)) }
InputRows == ValidRows \cup InvalidRows

\* Ids a caller supplies: of sample rows, and the first id assigned after
\* them (which names no row until a row is added).
FruitIds == {1, 5, 6}
CategoryIds == {2, 4, 5}
Quantities == {-1, 0, 7}
CategoryNames == {Tropical, Dried}
SearchTerms == {TermCold, TermAN, TermZ, TermUnderscore, TermPercent}
Days == {-1, 0, DefaultDays}
\* Dates the clock shows when get_expiring_fruits reads it
\* (datetime.now().date().isoformat()).
Todays == { IsoFormat(2023, 11, 10), IsoFormat(2023, 11, 18), IsoFormat(2023, 12, 28) }

\* The behaviours explored make at most MaxWrites calls that write.
More == writes < MaxWrites

Next ==
    \/ initialize_sample_data
    \/ get_db_connection
    \/ \E in \in InputRows, fault \in BOOLEAN : More /\ add_fruit(in, fault)
    \/ \E name \in CategoryNames, fault \in BOOLEAN : More /\ add_category(name, fault)
    \/ \E f \in FruitIds, c \in CategoryIds, fault \in BOOLEAN :
          More /\ assign_fruit_to_category(f, c, fault)
    \/ \E f \in FruitIds, in \in InputRows, fault \in BOOLEAN :
          More /\ update_fruit(f, in, fault)
    \/ \E f \in FruitIds, q \in Quantities, fault \in BOOLEAN :
          More /\ update_fruit_quantity(f, q, fault)
    \/ \E c \in CategoryIds, name \in CategoryNames, fault \in BOOLEAN :
          More /\ update_category(c, name, fault)
    \/ \E f \in FruitIds, fault \in BOOLEAN : More /\ delete_fruit(f, fault)
    \/ \E c \in CategoryIds, fault \in BOOLEAN : More /\ delete_category(c, fault)
    \/ \E f \in FruitIds, c \in CategoryIds, fault \in BOOLEAN :
          More /\ remove_fruit_from_category(f, c, fault)
    \/ get_all_fruits
    \/ \E f \in FruitIds : get_fruit_by_id(f)
    \/ \E c \in CategoryIds : get_fruits_by_category(c)
    \/ get_all_categories
    \/ \E d \in Days, now \in Todays : get_expiring_fruits(d, now)
    \/ \E t \in SearchTerms : search_fruits(t)

Spec == Init /\ [][Next]_vars

(***************************************************************************)
(* Starts of the process between which the fruits are deleted: the calls   *)
(* are delete_fruit on the sample fruits, up to MaxDeletes of them, and    *)
(* the process may start again (import database) at any point.             *)
(***************************************************************************)
MaxDeletes == 5

\* The ids the sample fruits get on the first start.
SampleFruitIds == 1..Len(sample_fruits)

RestartNext ==
    \/ initialize_sample_data
    \/ get_db_connection
    \/ \E f \in SampleFruitIds : writes < MaxDeletes /\ delete_fruit(f, FALSE)

RestartSpec == Init /\ [][RestartNext]_vars

(***************************************************************************)
(* models.py: the Fruit record and its expiry properties, which read the   *)
(* clock on every access.  No function of crud.py builds a Fruit: the      *)
(* record is given, with any expiry date 'YYYY-MM-DD' or None.             *)
(***************************************************************************)
\* The calendar arithmetic of datetime.date: the proleptic Gregorian ordinal
\* of year, month and day (1 for 0001-01-01).
is_leap(year) == year % 4 = 0 /\ (year % 100 # 0 \/ year % 400 = 0)
days_before_year(year) ==
    LET y == year - 1 IN y * 365 + (y \div 4) - (y \div 100) + (y \div 400)
days_before_month(year, month) ==
    <<0, 31, 59, 90, 120, 151, 181, 212, 243, 273, 304, 334>>[month]
        + (IF month > 2 /\ is_leap(year) THEN 1 ELSE 0)
toordinal(year, month, day) ==
    days_before_year(year) + days_before_month(year, month) + day

\* datetime.strptime(text, "%Y-%m-%d").date(), as its ordinal: the digits
\* before the first '-', between the two, and after the second.
strptime(text) ==
    LET dashes == {i \in DOMAIN text : text[i] = 45}
        first == CHOOSE i \in dashes : \A j \in dashes : i <= j
        second == CHOOSE i \in dashes : \A j \in dashes : j <= i
    IN  toordinal(Number(SubSeq(text, 1, first - 1)),
                  Number(SubSeq(text, first + 1, second - 1)),
                  Number(SubSeq(text, second + 1, Len(text))))

\* `not self.expiry_date`: None or the empty string.
NoExpiryDate(f) == f.expiry_date = NULL \/ f.expiry_date = Empty

\* (expiry - today).days <= 7 and (expiry - today).days >= 0
IsExpiringSoon(f, today) ==
    IF NoExpiryDate(f) THEN FALSE
    ELSE LET days == strptime(f.expiry_date) - strptime(today)
         IN  days <= 7 /\ days >= 0

\* expiry < today
IsExpiredOrExpiresToday(f, today) ==
    IF NoExpiryDate(f) THEN FALSE
    ELSE strptime(f.expiry_date) <= strptime(today)
IsExpired(f, today) ==
    IF NoExpiryDate(f) THEN FALSE
    ELSE strptime(f.expiry_date) < strptime(today)

\* fruit.is_expiring_soon, read when the clock shows the date now.
is_expiring_soon(now) ==
    /\ call' = [Call("is_expiring_soon") EXCEPT !.now = now]
    /\ ret' = RetBool(IsExpiringSoon(fruit, now))
    /\ raised' = ""
    /\ UNCHANGED <<schema, fruits, fruitSeq, categories, catSeq, fruit_categories,
                   process, conn, writes, fruit>>

\* fruit.is_expired, read when the clock shows the date now.
is_expired(now) ==
    /\ call' = [Call("is_expired") EXCEPT !.now = now]
    /\ ret' = RetBool(IsExpired(fruit, now))
    /\ raised' = ""
    /\ UNCHANGED <<schema, fruits, fruitSeq, categories, catSeq, fruit_categories,
                   process, conn, writes, fruit>>

\* Expiry dates of the record: none, and dates before, on and after each
\* date of the clock, up to eight days after, across the end of a year and
\* the end of February of a leap year.
ExpiryDates ==
    { NULL,
      IsoFormat(2023, 11, 9), IsoFormat(2023, 11, 10), IsoFormat(2023, 11, 17),
      IsoFormat(2023, 11, 18), IsoFormat(2023, 11, 19), IsoFormat(2023, 12, 27),
      IsoFormat(2024, 1, 4), IsoFormat(2024, 1, 5), IsoFormat(2024, 2, 25),
      IsoFormat(2024, 2, 29), IsoFormat(2024, 3, 4), IsoFormat(2024, 3, 5) }

\* Dates the clock shows when a property reads it (datetime.now().date()).
ClockDates == Todays \cup { IsoFormat(2024, 2, 26) }

\* A Fruit with an expiry date, nothing stored and nothing imported.
FruitInit ==
    /\ schema = <<>>
    /\ fruits = <<>>
    /\ fruitSeq = 0
    /\ categories = <<>>
    /\ catSeq = 0
    /\ fruit_categories = {}
    /\ process = "none"
    /\ conn = Closed
    /\ writes = 0
    /\ call = Call("")
    /\ ret = RetNone
    /\ raised = ""
    /\ \E expiry_date \in ExpiryDates :
          fruit = [Fruit EXCEPT !.name = Kiwi, !.expiry_date = expiry_date]

FruitNext ==
    \/ \E now \in ClockDates : is_expiring_soon(now)
    \/ \E now \in ClockDates : is_expired(now)

FruitSpec == FruitInit /\ [][FruitNext]_vars

(***************************************************************************)
(* Properties.                                                             *)
(***************************************************************************)
\* The five values of a row a caller supplied, as the last call holds them.
SameFields(row, c) ==
    /\ row.name = c.name
    /\ row.quantity = c.quantity
    /\ row.price = c.price
    /\ row.storage_location = c.storage_location
    /\ row.expiry_date = c.expiry_date

\* The supplied row meets the minimums: non-empty name, quantity >= 1,
\* price >= 0.01.
ValidCall(c) == c.name # Empty /\ c.quantity >= MinQuantity /\ c.price >= MinPrice

\* C1: add_fruit with a valid row, the store not failing, returns the newly
\* assigned identity, and get_fruit_by_id with the returned value yields
\* the row with exactly the supplied name, quantity, price, location and
\* expiry date.
C1_AddReturnsIdentityOfStoredRow ==
    (call.op = "add_fruit" /\ ValidCall(call) /\ raised = "") =>
        LET id == BoundAsInteger(ret)
            got == FruitById(fruits, id)
        IN  /\ id = fruitSeq
            /\ got # <<>>
            /\ got[1].id = id
            /\ SameFields(got[1], call)

\* C2: add_fruit with an empty name, a quantity < 1 or a price < 0.01
\* returns an error outcome and leaves the stored items unchanged.
C2_InvalidAddRejected ==
    [][(call'.op = "add_fruit" /\ ~ValidCall(call')) =>
          (~ret'.bool /\ fruits' = fruits)]_vars

\* C3: update_fruit on an existing id (the store not failing) succeeds and
\* get_fruit_by_id then returns exactly the new name, quantity, price,
\* location and expiry date; update_fruit on an id that does not exist
\* returns False and leaves items, categories and links unchanged.
C3_UpdateRoundTripAndNotFound ==
    [][call'.op = "update_fruit" =>
          IF call'.fruit_id \in DOMAIN fruits
          THEN raised' = "" =>
                   LET got == FruitById(fruits', call'.fruit_id)
                   IN  /\ ret' = CommittedReturn
                       /\ got # <<>>
                       /\ got[1].id = call'.fruit_id
                       /\ SameFields(got[1], call')
          ELSE /\ ~ret'.bool
               /\ fruits' = fruits
               /\ categories' = categories
               /\ fruit_categories' = fruit_categories]_vars

C3_Witness ==
    /\ call.op = "update_fruit"
    /\ ret = CommittedReturn
    /\ call.expiry_date = NULL
    /\ FruitById(fruits, call.fruit_id) # <<>>
    /\ SameFields(fruits[call.fruit_id], call)

\* C4: for update_fruit, delete_fruit, update_category, delete_category and
\* remove_fruit_from_category, a call that met a store error never returns
\* the value the call returns when its target does not exist.
C4_FaultDistinctFromNotFound ==
    (/\ call.op \in {"update_fruit", "delete_fruit", "update_category",
                     "delete_category", "remove_fruit_from_category"}
     /\ raised # "") => ret # NoRowReturn

\* C5: after delete_fruit(id) succeeds, get_fruit_by_id(id) yields None, no
\* link of that fruit is left and get_fruits_by_category lists it for no
\* category, and all other fruits, all categories and all links of other
\* fruits are as before.
C5_DeleteRemovesItemAndItsLinksOnly ==
    [][(call'.op = "delete_fruit" /\ ret'.bool) =>
          LET id == call'.fruit_id
          IN  /\ FruitById(fruits', id) = <<>>
              /\ \A l \in fruit_categories' : l[1] # id
              /\ \A c \in DOMAIN categories \cup CategoryIds :
                    \A i \in DOMAIN FruitsByCategory(fruits', fruit_categories', c) :
                        FruitsByCategory(fruits', fruit_categories', c)[i].id # id
              /\ DOMAIN fruits' = DOMAIN fruits \ {id}
              /\ \A f \in DOMAIN fruits' : fruits'[f] = fruits[f]
              /\ categories' = categories
              /\ fruit_categories' = {l \in fruit_categories : l[1] # id}]_vars

\* A fruit that had a sample link (Apple, in Core Fruits) was deleted.
C5_Witness ==
    /\ call.op = "delete_fruit"
    /\ ret.bool
    /\ call.fruit_id = 1
    /\ 4 \in DOMAIN categories
    /\ <<1, 4>> \notin fruit_categories
    /\ <<5, 2>> \in fruit_categories

\* No two stored categories share a name.
CategoryNamesUnique ==
    \A a \in DOMAIN categories : \A b \in DOMAIN categories :
        a # b => categories[a].name # categories[b].name

\* C6: no two stored categories share a name, in every reachable state; and
\* add_category with a name that exists fails (on the unique constraint,
\* unless the store failed first) and leaves the categories unchanged.
C6_CategoryNamesUnique ==
    /\ []CategoryNamesUnique
    /\ [][(/\ call'.op = "add_category"
           /\ \E c \in DOMAIN categories : categories[c].name = call'.name) =>
             (/\ ~ret'.bool
              /\ raised' \in {UniqueFailed, StorageFault}
              /\ categories' = categories)]_vars

C6_Witness ==
    /\ call.op = "add_category"
    /\ raised = UniqueFailed
    /\ ~ret.bool
    /\ \E c \in DOMAIN categories : categories[c].name = call.name

\* Every stored link names a stored fruit and a stored category.
LinksReferToRows ==
    \A l \in fruit_categories : l[1] \in DOMAIN fruits /\ l[2] \in DOMAIN categories

\* C7: every stored link references an existing fruit and an existing
\* category, in every reachable state; and assign_fruit_to_category with a
\* fruit id or a category id that does not exist fails (on the foreign key,
\* unless the store failed first) and inserts no link.
C7_LinksReferToExistingRows ==
    /\ []LinksReferToRows
    /\ [][(/\ call'.op = "assign_fruit_to_category"
           /\ (call'.fruit_id \notin DOMAIN fruits
               \/ call'.category_id \notin DOMAIN categories)) =>
             (/\ ~ret'.bool
              /\ raised' \in {ForeignKeyFailed, StorageFault}
              /\ fruit_categories' = fruit_categories)]_vars

C7_Witness ==
    /\ call.op = "assign_fruit_to_category"
    /\ raised = ForeignKeyFailed
    /\ call.fruit_id \in DOMAIN fruits
    /\ call.category_id \notin DOMAIN categories

\* C8: every stored fruit has a non-empty name, a quantity >= 0 and a
\* price >= 0.
C8_StoredItemsWellFormed ==
    \A f \in DOMAIN fruits :
        fruits[f].name # Empty /\ fruits[f].quantity >= 0 /\ fruits[f].price >= 0

\* term occurs in text at position i, up to ASCII case.
OccursAt(term, text, i) ==
    /\ i + Len(term) - 1 <= Len(text)
    /\ \A k \in 1..Len(term) : Lower(term[k]) = Lower(text[i + k - 1])

\* term is a literal substring of text, up to ASCII case.
IsSubstring(term, text) == \E i \in 1..(Len(text) + 1) : OccursAt(term, text, i)

\* The rows are in ascending order of the text column col.
Ascending(rows, col) ==
    \A i \in 1..(Len(rows) - 1) : TextLeq(rows[i][col], rows[i + 1][col])

\* The set of the rows of a list, each listed once.
ListsExactly(rows, S) ==
    /\ {rows[i] : i \in DOMAIN rows} = S
    /\ Len(rows) = Cardinality(S)

\* C9: search_fruits(term) returns exactly the stored fruits of which term
\* is a literal substring, up to case, of the name or of the storage
\* location, for every term, those with % or _ included, sorted by name.
C9_SearchIsLiteralSubstring ==
    call.op = "search_fruits" =>
        /\ ListsExactly(ret.rows,
               {r \in Rows(fruits) : \/ IsSubstring(call.search_term, r.name)
                                     \/ IsSubstring(call.search_term, r.storage_location)})
        /\ Ascending(ret.rows, "name")

\* Days from 2000-01-01 to the date 'YYYY-MM-DD', by the civil calendar.
IsLeapYear(y) == (y % 4 = 0 /\ y % 100 # 0) \/ y % 400 = 0
DaysBeforeMonth(y, m) ==
    <<0, 31, 59, 90, 120, 151, 181, 212, 243, 273, 304, 334>>[m]
        + (IF m > 2 /\ IsLeapYear(y) THEN 1 ELSE 0)
DayNumber(t) ==
    LET y == Number(SubSeq(t, 1, 4))
        m == Number(SubSeq(t, 6, 7))
        d == Number(SubSeq(t, 9, 10))
    IN  365 * (y - 2000) + Cardinality({x \in 2000..(y - 1) : IsLeapYear(x)})
            + DaysBeforeMonth(y, m) + d

\* C10: get_expiring_fruits(days) returns exactly the stored fruits whose
\* expiry date is not null and lies between today and today + days, both
\* ends included, ordered by expiry date ascending.
C10_ExpiringWindowInclusive ==
    call.op = "get_expiring_fruits" =>
        /\ ListsExactly(ret.rows,
               {r \in Rows(fruits) :
                    /\ r.expiry_date # NULL
                    /\ DayNumber(call.now) <= DayNumber(r.expiry_date)
                    /\ DayNumber(r.expiry_date) <= DayNumber(call.now) + call.days})
        /\ \A i \in 1..(Len(ret.rows) - 1) :
              DayNumber(ret.rows[i].expiry_date) <= DayNumber(ret.rows[i + 1].expiry_date)

\* A fruit expiring on the last day of a window of several days is listed.
C10_Witness ==
    /\ call.op = "get_expiring_fruits"
    /\ call.days > 0
    /\ \E i \in DOMAIN ret.rows :
          DayNumber(ret.rows[i].expiry_date) = DayNumber(call.now) + call.days

\* Text a sorts strictly before text b, character code by character code: at
\* the first position where they differ a has the smaller code, or a ends.
SortsBefore(a, b) ==
    \E i \in 1..(Len(b)) :
        /\ i <= Len(a) + 1
        /\ \A k \in 1..(i - 1) : a[k] = b[k]
        /\ (i = Len(a) + 1 \/ a[i] < b[i])

\* C11: get_all_fruits returns every stored fruit exactly once, in ascending
\* order of name whatever the order of insertion, fruits of equal name in
\* ascending order of id.
C11_ListSortedByNameThenId ==
    call.op = "get_all_fruits" =>
        /\ ListsExactly(ret.rows, Rows(fruits))
        /\ \A i \in 1..(Len(ret.rows) - 1) :
              \/ SortsBefore(ret.rows[i].name, ret.rows[i + 1].name)
              \/ /\ ret.rows[i].name = ret.rows[i + 1].name
                 /\ ret.rows[i].id < ret.rows[i + 1].id

\* A list with two fruits of one name, and with a fruit listed before one
\* that was inserted earlier.
C11_Witness ==
    /\ call.op = "get_all_fruits"
    /\ \E i \in 1..(Len(ret.rows) - 1) : ret.rows[i].name = ret.rows[i + 1].name
    /\ \E i \in DOMAIN ret.rows : \E j \in DOMAIN ret.rows :
          i < j /\ ret.rows[i].id > ret.rows[j].id

\* No relation is in the schema twice.
NoDuplicateRelation(sch) ==
    \A i \in DOMAIN sch : \A j \in DOMAIN sch : sch[i] = sch[j] => i = j

\* C12: create_tables on a store that has its relations (every call of
\* get_db_connection after the first) raises no error, leaves the schema as
\* it is with no relation twice, and leaves all fruits, categories and
\* links unchanged.
C12_CreateTablesIdempotent ==
    [][(call'.op = "get_db_connection" /\ schema # <<>>) =>
          /\ raised' = ""
          /\ ret' # RetRaise
          /\ schema' = schema
          /\ NoDuplicateRelation(schema')
          /\ fruits' = fruits /\ fruitSeq' = fruitSeq
          /\ categories' = categories /\ catSeq' = catSeq
          /\ fruit_categories' = fruit_categories]_vars

\* get_db_connection ran create_tables on a store that has the three
\* relations and rows written after the sample data.
C12_Witness ==
    /\ call.op = "get_db_connection"
    /\ Len(schema) = 3
    /\ writes > 0
    /\ DOMAIN fruits # {}
    /\ conn.open

\* C13: importing the database module (whose body runs
\* initialize_sample_data), on a first start as on a later one, inserts no
\* fruit, no category and no link.
C13_ImportInsertsNothing ==
    [][call'.op = "initialize_sample_data" =>
          /\ fruits' = fruits
          /\ categories' = categories
          /\ fruit_categories' = fruit_categories]_vars

\* C14: for every Fruit and every date of the clock, is_expiring_soon is
\* true exactly when the expiry date is set and lies 0 to 7 days after
\* today, and is_expired exactly when it is set and lies before today; the
\* two are never both true, and both are false with no expiry date.
C14_ExpiryPropertiesOfFruit ==
    LET set == fruit.expiry_date # NULL
        left == IF set THEN DayNumber(fruit.expiry_date) - DayNumber(call.now) ELSE 0
    IN  /\ call.op = "is_expiring_soon" => (ret.bool <=> (set /\ 0 <= left /\ left <= 7))
        /\ call.op = "is_expired" => (ret.bool <=> (set /\ left < 0))
        /\ call.op \in {"is_expiring_soon", "is_expired"} =>
              /\ ~(IsExpiringSoon(fruit, call.now) /\ IsExpired(fruit, call.now))
              /\ ~set => (~IsExpiringSoon(fruit, call.now) /\ ~IsExpired(fruit, call.now))

\* is_expired was read on the very day the fruit expires, and is false.
C14_Witness ==
    /\ call.op = "is_expired"
    /\ fruit.expiry_date = call.now
    /\ ~ret.bool
    /\ IsExpiringSoon(fruit, call.now)

\* C15: initialize_sample_data, run at a start of the process in whatever
\* state the calls before left the store, raises no error, and when fruits
\* is not empty it leaves fruits, categories and links unchanged.
C15_StartIsSafe ==
    [][call'.op = "initialize_sample_data" =>
          /\ ret' # RetRaise
          /\ raised' = ""
          /\ DOMAIN fruits # {} =>
                /\ fruits' = fruits
                /\ categories' = categories
                /\ fruit_categories' = fruit_categories]_vars

====
